---- MODULE Spec2Model ----
(***************************************************************************)
(* Search aggregation and translation-merge pipeline of                    *)
(* SillyTavern-Chub-Search (src/index.js, second bundled file, lines       *)
(* 916-2232), with the popup's search form and its debounced search.       *)
(*                                                                         *)
(* Text is modelled as a sequence of symbols.  A symbol is one character   *)
(* ("<", ">", " ", a CJK character) or an opaque run of Latin characters   *)
(* that contains none of these.  The empty sequence is the empty string.   *)
(***************************************************************************)
EXTENDS Integers, Sequences, FiniteSets, TLC

(* ------------------------------ bounds -------------------------------- *)
\* longest node list / item list a provider answers with
MaxNodes == 2
\* longest texts array handed to batchTranslateToChinese on its own
MaxTexts == 3
\* clock ticks that make up the quiet period of the debounced search
QuietTicks == 2
\* search triggers in one behaviour
MaxTriggers == 3
\* highest page number the form is taken to
MaxPage == 2

(* ------------------------------ symbols ------------------------------- *)
\* characters in the range U+4E00..U+9FFF
CJK == {"U4E2D", "U8BD1"}
Whitespace == {" "}
\* the value `undefined`, kept in the type of texts
UNDEF == <<"\\undefined">>

sA == <<"a">>
sB == <<"b">>
tagT == <<"t">>
tagZh == <<"U4E2D">>
nameZh == <<"U4E2D", "a">>
htmlA == <<"<", "b", ">", "a">>
padB == <<" ", "b">>

Range(s) == {s[i] : i \in 1..Len(s)}

\* JavaScript truthiness of a string-or-undefined value
Truthy(v) == v # <<>> /\ v # UNDEF

\* a || b
Or(a, b) == IF Truthy(a) THEN a ELSE b

containsChinese(text) == \E i \in 1..Len(text) : text[i] \in CJK

\* index of the first ">" at or after position i, 0 when there is none
RECURSIVE FirstClose(_, _)
FirstClose(s, i) ==
    IF i > Len(s) THEN 0
    ELSE IF s[i] = ">" THEN i
    ELSE FirstClose(s, i + 1)

\* text.replace(/<[^>]*>/g, '')
RECURSIVE RemoveTags(_)
RemoveTags(s) ==
    IF s = <<>> THEN <<>>
    ELSE IF s[1] = "<" /\ FirstClose(s, 2) # 0
         THEN RemoveTags(SubSeq(s, FirstClose(s, 2) + 1, Len(s)))
         ELSE <<s[1]>> \o RemoveTags(Tail(s))

RECURSIVE TrimLeft(_)
TrimLeft(s) ==
    IF s # <<>> /\ s[1] \in Whitespace THEN TrimLeft(Tail(s)) ELSE s

RECURSIVE TrimRight(_)
TrimRight(s) ==
    IF s # <<>> /\ s[Len(s)] \in Whitespace
    THEN TrimRight(SubSeq(s, 1, Len(s) - 1)) ELSE s

Trim(s) == TrimLeft(TrimRight(s))

stripHtml(text) == IF ~Truthy(text) THEN <<>> ELSE Trim(RemoveTags(text))

\* mutant: the array is kept as it is, duplicates included
SetOrder_KeepAll(seq) == seq

\* [...new Set(seq)] : first occurrences, in order
RECURSIVE SetOrder(_)
SetOrder(seq) ==
    IF seq = <<>> THEN <<>>
    ELSE LET init == SetOrder(SubSeq(seq, 1, Len(seq) - 1))
             last == seq[Len(seq)]
         IN IF last \in Range(init) THEN init ELSE Append(init, last)

\* obj[key] on a plain object holding the own keys of `map`; texts range over
\* ordinary strings, none of them the name of an Object.prototype member
Lookup(map, key) == IF key \in DOMAIN map THEN map[key] ELSE UNDEF

EmptyMap == [k \in {} |-> <<>>]
IdentityMap(texts) == [k \in Range(texts) |-> k]

(* ------------------------ translation service ------------------------- *)
\* what the remote translation service would answer for one text
NotCJK(c) == c \notin CJK
ServiceTranslate(text, target) ==
    IF target = "zh-CN" THEN <<"U8BD1">> \o text
    ELSE <<"en">> \o SelectSeq(text, NotCJK)

\* one entry of data.translations: null, or an object whose translated_text
\* is a text or is missing (UNDEF)
NullEntry == [isNull |-> TRUE, translated_text |-> UNDEF]
Entry(t) == [isNull |-> FALSE, translated_text |-> t]

\* entries 1..len: the service's translation, except entry `bad` (0: none)
DefectEntry(text, kind) ==
    CASE kind = "null" -> NullEntry
      [] kind = "noText" -> Entry(UNDEF)
      [] kind = "empty" -> Entry(<<>>)
      [] OTHER -> Entry(text)
Translations(texts, target, len, bad, kind) ==
    [i \in 1..len |->
        IF i = bad THEN DefectEntry(texts[i], kind)
        ELSE Entry(ServiceTranslate(texts[i], target))]

DefectKinds == {"null", "noText", "empty", "same"}

\* a reply of the translation endpoint: the transport outcome (fetch throws,
\* status not OK, OK), the body (unparsable, JSON null, an object) and the
\* fields of the object
Reply(net, body, success, trKind, items) ==
    [net |-> net, body |-> body, success |-> success, trKind |-> trKind,
     items |-> items]
ServiceReplies(texts, target) ==
    {Reply("throw", "none", FALSE, "missing", <<>>),
     Reply("nonok", "none", FALSE, "missing", <<>>),
     Reply("ok", "unparsable", FALSE, "missing", <<>>),
     Reply("ok", "null", FALSE, "missing", <<>>),
     Reply("ok", "object", TRUE, "missing", <<>>),
     Reply("ok", "object", TRUE, "string", <<>>),
     Reply("ok", "object", FALSE, "array",
           Translations(texts, target, Len(texts), 0, "same"))}
    \cup {Reply("ok", "object", TRUE, "array",
                Translations(texts, target, len, 0, "same")) :
            len \in 0..Len(texts)}
    \cup {Reply("ok", "object", TRUE, "array",
                Translations(texts, target, Len(texts), b[1], b[2])) :
            b \in (1..Len(texts)) \X DefectKinds}

NoReply == Reply("none", "none", FALSE, "missing", <<>>)

\* the reply is not the full, well-formed translation of the request
Misbehaves(reply, texts) ==
    ~(reply.net = "ok" /\ reply.body = "object" /\ reply.success
      /\ reply.trKind = "array" /\ Len(reply.items) = Len(texts)
      /\ \A i \in 1..Len(texts) :
            ~reply.items[i].isNull /\ Truthy(reply.items[i].translated_text)
            /\ reply.items[i].translated_text # texts[i])

\* data.translations[index] && its translated_text, as the code reads them
TranslatedTextAt(reply, index) ==
    IF reply.trKind = "array" /\ index <= Len(reply.items)
       /\ ~reply.items[index].isNull
    THEN reply.items[index].translated_text
    ELSE UNDEF

\* a returned value or a thrown error of an async function
Returned(v) == [threw |-> FALSE, value |-> v]
Thrown == [threw |-> TRUE, value |-> <<>>]

\* translateText after its fetch settles (enableTranslation was true)
translateText(text, reply) ==
    IF reply.net = "throw" THEN Returned(text)
    ELSE IF reply.net = "nonok" THEN Returned(text)
    ELSE IF reply.body \in {"unparsable", "null"} THEN Returned(text)
    ELSE IF reply.success /\ reply.trKind # "missing"
            /\ (reply.trKind = "string" \/ Len(reply.items) >= 1)
         THEN Returned(Or(TranslatedTextAt(reply, 1), text))
         ELSE Returned(text)

\* mutant: the loop runs over data.translations instead of texts
AlignedMap_OverTranslations(texts, reply) ==
    [k \in {texts[i] : i \in 1..(IF Len(reply.items) < Len(texts)
                                 THEN Len(reply.items) ELSE Len(texts))} |->
        LET index == CHOOSE i \in 1..Len(texts) : texts[i] = k
        IN Or(TranslatedTextAt(reply, index), k)]

\* result of the texts.forEach of the success branch
AlignedMap(texts, reply) ==
    [k \in Range(texts) |->
        LET index == CHOOSE i \in 1..Len(texts) :
                        texts[i] = k /\ \A j \in (i + 1)..Len(texts) : texts[j] # k
        IN Or(TranslatedTextAt(reply, index), k)]

\* mutant: the catch block rethrows
batchTranslateSettled_Rethrow(texts, reply) ==
    IF reply.net = "throw" \/ reply.body \in {"unparsable", "null"} THEN Thrown
    ELSE IF reply.net = "nonok" THEN Returned(IdentityMap(texts))
    ELSE IF reply.success /\ reply.trKind = "array"
         THEN Returned(AlignedMap(texts, reply))
         ELSE Returned(IdentityMap(texts))

\* batchTranslateToChinese after its fetch settles (enableTranslation true)
batchTranslateSettled(texts, reply) ==
    IF reply.net = "throw" THEN Returned(IdentityMap(texts))
    ELSE IF reply.net = "nonok" THEN Returned(IdentityMap(texts))
    ELSE IF reply.body \in {"unparsable", "null"} THEN Returned(IdentityMap(texts))
    ELSE IF reply.success /\ reply.trKind = "array"
         THEN Returned(AlignedMap(texts, reply))
         ELSE Returned(IdentityMap(texts))

(* -------------------------- provider data ----------------------------- *)
DescriptionPlaceholder == <<"Description here...">>
UnknownCharacter == <<"Unknown Character">>
NoDescription == <<"No description available">>

\* an optional array: node.topics, char.custom_tags
Arr(list) == [isArray |-> TRUE, list |-> list]
NoArr == [isArray |-> FALSE, list |-> <<>>]

ChubNode(fullPath, name, tagline, description, topics) ==
    [fullPath |-> fullPath, name |-> name, tagline |-> tagline,
     description |-> description, topics |-> topics]
\* nodes the primary catalog may answer with
ChubNodes ==
    {ChubNode("u1/c1", sA, sB, <<>>, Arr(<<tagT, tagT, tagZh>>)),
     ChubNode("u2/c2", nameZh, <<>>, <<>>, Arr(<<tagT, sA>>)),
     ChubNode("u3/c3", sB, <<>>, sA, NoArr)}
NodeLists == UNION {[1..n -> ChubNodes] : n \in 0..MaxNodes}

\* tag objects of the secondary catalog carry a name or a slug
JTag(name, slug) == [name |-> name, slug |-> slug]
JanitorChar(id, name, description, tags, custom_tags) ==
    [id |-> id, name |-> name, description |-> description, tags |-> tags,
     custom_tags |-> custom_tags]
JanitorChars ==
    {JanitorChar("j1", sA, htmlA, Arr(<<JTag(tagT, <<>>)>>), Arr(<<tagT, sB>>)),
     JanitorChar("j2", <<>>, <<>>, NoArr, NoArr),
     JanitorChar("j3", nameZh, padB, Arr(<<JTag(<<>>, tagZh)>>), NoArr)}
JanitorLists == UNION {[1..n -> JanitorChars] : n \in 0..MaxNodes}

(* ------------------------ image resolution ---------------------------- *)
Blob(path, via) == [path |-> path, via |-> via]
NoBlob == Blob("", "none")

(* ------------------------- translation merge -------------------------- *)
\* mutant: an array push in place of Set.add
AddText_NoDedup(texts, t) == Append(texts, t)

\* Set.prototype.add on the insertion-ordered set of texts
AddText(texts, t) == IF t \in Range(texts) THEN texts ELSE Append(texts, t)

\* if (t && !containsChinese(t)) textsToTranslate.add(t)
Collect(texts, t) ==
    IF Truthy(t) /\ ~containsChinese(t) THEN AddText(texts, t) ELSE texts

RECURSIVE CollectAll(_, _)
CollectAll(texts, tags) ==
    IF tags = <<>> THEN texts
    ELSE CollectAll(Collect(texts, tags[1]), Tail(tags))

NodeDescription(node) ==
    Or(node.tagline, Or(node.description, DescriptionPlaceholder))

\* the nodes.forEach of fetchCharactersBySearch
RECURSIVE CollectNodes(_, _)
CollectNodes(texts, nodes) ==
    IF nodes = <<>> THEN texts
    ELSE LET node == nodes[1]
             t1 == Collect(texts, node.name)
             t2 == Collect(t1, NodeDescription(node))
             t3 == IF node.topics.isArray THEN CollectAll(t2, node.topics.list)
                   ELSE t2
         IN CollectNodes(t3, Tail(nodes))

\* the characters.forEach of applyTranslationsToCharacters
RECURSIVE CollectCharacters(_, _)
CollectCharacters(texts, characters) ==
    IF characters = <<>> THEN texts
    ELSE LET c == characters[1]
             t1 == Collect(texts, c.name)
             t2 == Collect(t1, c.description)
             t3 == CollectAll(t2, c.tags)
         IN CollectCharacters(t3, Tail(characters))

\* mutant: the translated text is stored as the tag's value
TagObject_TranslatedOriginal(tag, translationResults) ==
    IF Truthy(Lookup(translationResults, tag))
    THEN [text |-> Lookup(translationResults, tag),
          original |-> Lookup(translationResults, tag),
          translated |-> TRUE,
          dataValue |-> Lookup(translationResults, tag)]
    ELSE [text |-> tag, original |-> tag, translated |-> FALSE,
          dataValue |-> tag]

\* the structured tag built for one tag string
TagObject(tag, translationResults) ==
    IF Truthy(Lookup(translationResults, tag))
    THEN [text |-> Lookup(translationResults, tag), original |-> tag,
          translated |-> TRUE, dataValue |-> tag]
    ELSE [text |-> tag, original |-> tag, translated |-> FALSE,
          dataValue |-> tag]

TagObjects(tags, translationResults) ==
    LET uniqueTags == SetOrder(tags)
    IN [j \in 1..Len(uniqueTags) |-> TagObject(uniqueTags[j], translationResults)]

\* name/description after the `if (translationResults[x])` assignment
Display(text, translationResults) ==
    IF Truthy(Lookup(translationResults, text))
    THEN Lookup(translationResults, text) ELSE text
Flag(text, translationResults) == Truthy(Lookup(translationResults, text))

\* the record built for node i of a primary-catalog page
ChubCharacter(node, blob, translationResults) ==
    LET originalName == node.name
        originalDescription == NodeDescription(node)
        originalTags == IF node.topics.isArray THEN node.topics.list ELSE <<>>
    IN [url |-> blob,
        description |-> Display(originalDescription, translationResults),
        name |-> Display(originalName, translationResults),
        fullPath |-> node.fullPath,
        originalName |-> originalName,
        originalDescription |-> originalDescription,
        originalTags |-> originalTags,
        nameTranslated |-> Flag(originalName, translationResults),
        descriptionTranslated |-> Flag(originalDescription, translationResults),
        tags |-> TagObjects(originalTags, translationResults)]

BuildChubCharacters(nodes, characterBlobs, translationResults) ==
    [i \in 1..Len(nodes) |->
        ChubCharacter(nodes[i], characterBlobs[i], translationResults)]

\* tag.name || tag.slug, then filter(Boolean)
RECURSIVE TagNames(_)
TagNames(tags) ==
    IF tags = <<>> THEN <<>>
    ELSE LET n == Or(tags[1].name, tags[1].slug)
         IN IF Truthy(n) THEN <<n>> \o TagNames(Tail(tags))
            ELSE TagNames(Tail(tags))

\* the record the secondary adapter builds from one item, before translation;
\* tags is still a list of strings
JanitorCharacter(char) ==
    LET tagNames == IF char.tags.isArray THEN TagNames(char.tags.list) ELSE <<>>
        customTags == IF char.custom_tags.isArray THEN char.custom_tags.list
                      ELSE <<>>
        allTags == tagNames \o customTags
    IN [url |-> Blob(char.id, "avatar"),
        description |-> Or(stripHtml(char.description), NoDescription),
        name |-> Or(char.name, UnknownCharacter),
        fullPath |-> char.id,
        originalName |-> Or(char.name, UnknownCharacter),
        originalDescription |-> Or(char.description, NoDescription),
        originalTags |-> allTags,
        nameTranslated |-> FALSE,
        descriptionTranslated |-> FALSE,
        tags |-> allTags]

NormalizeJanitor(items) == [i \in 1..Len(items) |-> JanitorCharacter(items[i])]

\* the second characters.forEach of applyTranslationsToCharacters
ApplyToCharacter(c, translationResults) ==
    [c EXCEPT
        !.name = Display(c.name, translationResults),
        !.nameTranslated = Flag(c.name, translationResults),
        !.description = Display(c.description, translationResults),
        !.descriptionTranslated = Flag(c.description, translationResults),
        !.tags = TagObjects(c.tags, translationResults)]

ApplyTranslations(characters, translationResults) ==
    [i \in 1..Len(characters) |->
        ApplyToCharacter(characters[i], translationResults)]

(* -------------------------- provider replies -------------------------- *)
\* the node list of an envelope; isArray is FALSE when the key is missing
Envelope(shape, nodes) ==
    CASE shape = "top" -> [nodes |-> Arr(nodes)]
      [] shape = "nested" -> [data |-> [nodes |-> Arr(nodes)]]
      [] OTHER -> [error |-> TRUE]

\* mutant: only the top-level key is read
ExtractNodes_TopLevelOnly(searchData) ==
    IF "nodes" \in DOMAIN searchData THEN searchData.nodes ELSE NoArr

\* searchData.data ? searchData.data.nodes : searchData.nodes
ExtractNodes(searchData) ==
    IF "data" \in DOMAIN searchData
    THEN (IF "nodes" \in DOMAIN searchData.data THEN searchData.data.nodes
          ELSE NoArr)
    ELSE (IF "nodes" \in DOMAIN searchData THEN searchData.nodes ELSE NoArr)

\* !nodes || nodes.length === 0
NoNodes(nodes) == ~nodes.isArray \/ Len(nodes.list) = 0

\* a reply of the primary search endpoint: transport outcome, body (the
\* status is never read, so a non-OK reply is parsed like any other)
SearchReply(net, body, shape, nodes) ==
    [net |-> net, body |-> body, shape |-> shape, nodes |-> nodes]
SearchReplies ==
    {SearchReply("throw", "none", "none", <<>>),
     SearchReply("nonok", "unparsable", "none", <<>>),
     SearchReply("nonok", "object", "none", <<>>),
     SearchReply("ok", "unparsable", "none", <<>>),
     SearchReply("ok", "null", "none", <<>>),
     SearchReply("ok", "object", "none", <<>>)}
    \cup {SearchReply("ok", "object", e[1], e[2]) :
            e \in {"top", "nested"} \X NodeLists}
NoSearchReply == SearchReply("none", "none", "none", <<>>)

\* a reply of the crawl service: transport outcome, body, how much of the
\* envelope result._results[0].html is there, what the page holds, and what
\* the JSON text of its pre element parses to
CrawlReply(net, body, page, payload, items) ==
    [net |-> net, body |-> body, page |-> page, payload |-> payload,
     items |-> items]
CrawlReplies ==
    {CrawlReply("throw", "none", "none", "none", <<>>),
     CrawlReply("nonok", "none", "none", "none", <<>>),
     CrawlReply("ok", "unparsable", "none", "none", <<>>),
     CrawlReply("ok", "null", "none", "none", <<>>),
     CrawlReply("ok", "object", "noResult", "none", <<>>),
     CrawlReply("ok", "object", "noResults", "none", <<>>),
     CrawlReply("ok", "object", "emptyResults", "none", <<>>),
     CrawlReply("ok", "object", "noPre", "none", <<>>),
     CrawlReply("ok", "object", "pre", "invalidJson", <<>>),
     CrawlReply("ok", "object", "pre", "null", <<>>),
     CrawlReply("ok", "object", "pre", "noData", <<>>),
     CrawlReply("ok", "object", "pre", "dataNotArray", <<>>)}
    \cup {CrawlReply("ok", "object", "pre", "data", items) :
            items \in JanitorLists}
NoCrawlReply == CrawlReply("none", "none", "none", "none", <<>>)

\* the failure points of the secondary adapter
CrawlFailed(reply) == reply.payload # "data"

\* mutant: the inner catch of the JSON.parse rethrows out of the function
ParseCrawl_PropagateParseError(reply) ==
    IF reply.net = "throw" THEN [kind |-> "empty", characters |-> <<>>]
    ELSE IF reply.net = "nonok" THEN [kind |-> "empty", characters |-> <<>>]
    ELSE IF reply.body \in {"unparsable", "null"}
         THEN [kind |-> "empty", characters |-> <<>>]
    ELSE IF reply.payload = "invalidJson"
         THEN [kind |-> "thrown", characters |-> <<>>]
    ELSE IF reply.payload = "data"
         THEN [kind |-> "chars", characters |-> NormalizeJanitor(reply.items)]
         ELSE [kind |-> "empty", characters |-> <<>>]

\* fetchCharactersFromJanitor from the settled crawl fetch up to the call of
\* applyTranslationsToCharacters: "empty" is `return []`, "chars" carries the
\* normalized records, "thrown" is an error that leaves the function
CrawlOutcome(kind, characters) == [kind |-> kind, characters |-> characters]
ParseCrawl(reply) ==
    IF reply.net = "throw" THEN CrawlOutcome("empty", <<>>)
    ELSE IF reply.net = "nonok" THEN CrawlOutcome("empty", <<>>)
    ELSE IF reply.body \in {"unparsable", "null"} THEN CrawlOutcome("empty", <<>>)
    ELSE IF reply.page \in {"noResult", "noResults", "emptyResults"}
         THEN CrawlOutcome("empty", <<>>)
    ELSE IF reply.page = "noPre" THEN CrawlOutcome("empty", <<>>)
    ELSE IF reply.payload = "invalidJson" THEN CrawlOutcome("empty", <<>>)
    ELSE IF reply.payload = "null" THEN CrawlOutcome("empty", <<>>)
    ELSE IF reply.payload = "data"
         THEN CrawlOutcome("chars", NormalizeJanitor(reply.items))
         ELSE CrawlOutcome("empty", <<>>)

(* ------------------------------- state -------------------------------- *)
VARIABLES
    enableTranslation,   \* extension_settings.chub.enableTranslation
    apiProvider,         \* extension_settings.chub.apiProvider
    chubCharacters,      \* the module-level result list
    pc,                  \* where the running search is suspended
    provider,            \* apiProvider as read when the search started
    searchTerm,          \* options.searchTerm
    processedSearchTerm, \* the term put into the provider request
    nodes,               \* the extracted node list
    img,                 \* per node: where its getCharacter call stands
    characterBlobs,      \* per node: the value its getCharacter resolved to
    characters,          \* secondary catalog: records before translation
    textsArray,          \* texts of the batch translation request
    translationResults,  \* the map the merge reads
    result,              \* the list fetchCharactersBySearch resolved to
    searchReply,         \* reply of the primary search endpoint
    crawlReply,          \* reply of the crawl service
    termMisbehaved,      \* the search-term translation reply was defective
    batchMisbehaved,     \* the batch translation reply was defective
    outOfOrder,          \* an image resolved before one of an earlier node
    nGetCharacter,       \* getCharacter calls of this search
    nTermReq,            \* translation requests for the search term
    nBatchReq,           \* batch translation requests
    nProviderReq,        \* requests to the provider's search endpoint
    imgLog,              \* per node: the requests of getCharacter and their outcomes
    offWholeSearch,      \* enableTranslation was false all through the search
    bpc,                 \* a direct call of batchTranslateToChinese: its position
    bTexts,              \* its texts argument
    bReply,              \* the reply its request got
    bResult,             \* the map it returned
    tpc,                 \* a direct call of translateText: its position
    tText,               \* its text argument
    tTarget,             \* its targetLanguage argument
    tReply,              \* the reply its request got
    tResult,             \* the text it returned
    uTerm,               \* value of #characterSearchInput
    uPage,
    uInclude,            \* value of #includeTags               \* value of #pageNumber
    dArmed,              \* the debounce timer is set
    dLeft,               \* ticks until it is due
    dOptions,            \* the options its callback will pass on
    uSearches,           \* the executeCharacterSearch calls, in call order
    uView,               \* what the list element shows, and of which call
    uContainer,          \* characterListContainer: attached, detached, null
    uSearching,          \* the list element carries the class 'searching'
    uError,              \* an executeCharacterSearch call ended in a TypeError
    nTriggers,           \* search triggers handled so far
    nBursts,             \* triggers that found no timer set
    lastOptions,         \* the options the latest trigger captured
    sinceTrigger,        \* ticks since the latest trigger, up to QuietTicks
    qpc,                 \* building a request from the tag inputs: its position
    qProvider,           \* the provider the request is built for
    qInclude,            \* options.includeTags
    qExclude,            \* options.excludeTags
    qTopics,             \* the include-tag parameter of the request
    qExcludeTopics       \* the exclude-tag parameter of the request

vars == <<enableTranslation, apiProvider, chubCharacters, pc, provider,
          searchTerm, processedSearchTerm, nodes, img, characterBlobs,
          characters, textsArray, translationResults, result, searchReply,
          crawlReply, termMisbehaved, batchMisbehaved, outOfOrder,
          nGetCharacter, nTermReq, nBatchReq, nProviderReq, imgLog,
          offWholeSearch, bpc, bTexts, bReply, bResult, tpc, tText, tTarget,
          tReply, tResult, uTerm, uPage, uInclude, dArmed, dLeft, dOptions, uSearches,
          uView, uContainer, uSearching, uError, nTriggers, nBursts,
          lastOptions, sinceTrigger, qpc, qProvider, qInclude, qExclude,
          qTopics, qExcludeTopics>>

settings == <<enableTranslation, apiProvider>>
replies == <<searchReply, crawlReply, termMisbehaved, batchMisbehaved>>
counters == <<nGetCharacter, nTermReq, nBatchReq, nProviderReq, imgLog>>
batchCall == <<bpc, bTexts, bReply, bResult>>
textCall == <<tpc, tText, tTarget, tReply, tResult>>
ui == <<uTerm, uPage, uInclude, dArmed, dLeft, dOptions, uSearches, uView, uContainer,
        uSearching, uError, nTriggers, nBursts, lastOptions, sinceTrigger>>
req == <<qpc, qProvider, qInclude, qExclude, qTopics, qExcludeTopics>>
calls == <<batchCall, textCall, ui, req>>
pipeline == <<apiProvider, chubCharacters, pc, provider, searchTerm,
              processedSearchTerm, nodes, img, characterBlobs, characters,
              textsArray, translationResults, result, replies, outOfOrder,
              counters, offWholeSearch>>

SearchTerms == {<<>>, sA, tagZh}
Providers == {"chub", "janitor"}
Terminal == {"done", "rejected"}

\* a query parameter that holds a list of tags, or is not in the URL
Param(tags) == [present |-> TRUE, tags |-> tags]
NoParam == [present |-> FALSE, tags |-> <<>>]

\* the options object handleSearch builds (the fields the model follows)
Options(term, page, tags) ==
    [searchTerm |-> term, page |-> page, includeTags |-> tags]

\* splitAndTrim of an empty tag input
NoTags == <<<<>>>>

\* content of the list element: the call that wrote it and what it wrote
\* and the tag elements in it
View(by, shows, tags) == [by |-> by, shows |-> shows, tags |-> tags]

Init ==
    /\ enableTranslation = FALSE
    /\ apiProvider = "chub"
    /\ chubCharacters = <<>>
    /\ pc = "idle"
    /\ provider = "chub"
    /\ searchTerm = <<>>
    /\ processedSearchTerm = <<>>
    /\ nodes = NoArr
    /\ img = <<>>
    /\ characterBlobs = <<>>
    /\ characters = <<>>
    /\ textsArray = <<>>
    /\ translationResults = EmptyMap
    /\ result = <<>>
    /\ searchReply = NoSearchReply
    /\ crawlReply = NoCrawlReply
    /\ termMisbehaved = FALSE
    /\ batchMisbehaved = FALSE
    /\ outOfOrder = FALSE
    /\ nGetCharacter = 0
    /\ nTermReq = 0
    /\ nBatchReq = 0
    /\ nProviderReq = 0
    /\ imgLog = <<>>
    /\ offWholeSearch = TRUE
    /\ bpc = "idle"
    /\ bTexts = <<>>
    /\ bReply = NoReply
    /\ bResult = EmptyMap
    /\ tpc = "idle"
    /\ tText = <<>>
    /\ tTarget = "zh-CN"
    /\ tReply = NoReply
    /\ tResult = <<>>
    /\ uTerm = <<>>
    /\ uPage = 1
    /\ dArmed = FALSE
    /\ dLeft = 0
    /\ dOptions = Options(<<>>, 1, NoTags)
    /\ uSearches = <<>>
    /\ uView = View(0, "initial", <<>>)
    /\ uInclude = <<>>
    /\ uContainer = "null"
    /\ uSearching = FALSE
    /\ uError = FALSE
    /\ nTriggers = 0
    /\ nBursts = 0
    /\ lastOptions = Options(<<>>, 1, NoTags)
    /\ sinceTrigger = 0
    /\ qpc = "idle"
    /\ qProvider = "chub"
    /\ qInclude = <<>>
    /\ qExclude = <<>>
    /\ qTopics = NoParam
    /\ qExcludeTopics = NoParam

(* ------------------------------ settings ------------------------------ *)
\* change handler of enableTranslationCheckbox
ToggleTranslation ==
    /\ enableTranslation' = ~enableTranslation
    /\ offWholeSearch' = (offWholeSearch /\ (pc \in Terminal \/ pc = "idle"))
    /\ UNCHANGED <<apiProvider, chubCharacters, pc, provider, searchTerm,
                   processedSearchTerm, nodes, img, characterBlobs, characters,
                   textsArray, translationResults, result, replies,
                   outOfOrder, counters>>
    /\ UNCHANGED calls

\* change handler of apiProviderSelect, its settings part; the setting is
\* read once, when a search starts, so a change during a search is the same
\* as a change after it
ChangeProvider(p) ==
    /\ p # apiProvider
    /\ pc \in Terminal \cup {"idle"}
    /\ apiProvider' = p
    /\ UNCHANGED <<enableTranslation, chubCharacters, pc, provider, searchTerm,
                   processedSearchTerm, nodes, img, characterBlobs, characters,
                   textsArray, translationResults, result, replies,
                   outOfOrder, counters, offWholeSearch>>
    /\ UNCHANGED calls

(* --------------------------- search pipeline -------------------------- *)
\* mutant: the script test is dropped
NeedsTermTranslation_AnyTerm(term, enabled) == Truthy(term) /\ enabled

\* searchTerm && containsChinese(searchTerm) && enableTranslation
NeedsTermTranslation(term, enabled) ==
    Truthy(term) /\ containsChinese(term) /\ enabled

\* mutant: the size test is dropped
NeedsBatch_AnyPage(texts, enabled) == enabled

\* textsToTranslate.size > 0 && enableTranslation
NeedsBatch(texts, enabled) == Len(texts) > 0 /\ enabled

\* mutant: translateText does not test the setting
TranslateDisabled_Never(enabled) == FALSE

\* if (!extension_settings.chub.enableTranslation) return text, the first
\* statement of translateText
TranslateDisabled(enabled) == ~enabled

\* the same test at the head of batchTranslateToChinese
BatchDisabled(enabled) == ~enabled

\* mutant: the join resolves with the first promise that resolves
PromiseAll_First(st) ==
    IF \E i \in 1..Len(st) : st[i] = "failed" THEN "rejected"
    ELSE IF \E i \in 1..Len(st) : st[i] = "done" THEN "resolved"
    ELSE "pending"

\* mutant: the join waits for every promise and takes rejected ones along
PromiseAll_Settled(st) ==
    IF \A i \in 1..Len(st) : st[i] \in {"done", "failed"} THEN "resolved"
    ELSE "pending"

\* await Promise.all(charactersPromises): rejected as soon as one promise is
\* rejected, resolved when every promise has resolved
PromiseAll(st) ==
    IF \E i \in 1..Len(st) : st[i] = "failed" THEN "rejected"
    ELSE IF \A i \in 1..Len(st) : st[i] = "done" THEN "resolved"
    ELSE "pending"

\* fetchCharactersBySearch from its call up to its first await
BeginSearch(term) ==
    /\ provider' = apiProvider
    /\ searchTerm' = term
    /\ offWholeSearch' = ~enableTranslation
    /\ nodes' = NoArr
    /\ img' = <<>>
    /\ characterBlobs' = <<>>
    /\ characters' = <<>>
    /\ textsArray' = <<>>
    /\ translationResults' = EmptyMap
    /\ result' = <<>>
    /\ searchReply' = NoSearchReply
    /\ crawlReply' = NoCrawlReply
    /\ termMisbehaved' = FALSE
    /\ batchMisbehaved' = FALSE
    /\ outOfOrder' = FALSE
    /\ nGetCharacter' = 0
    /\ nBatchReq' = 0
    /\ imgLog' = <<>>
    /\ processedSearchTerm' = term
    /\ IF apiProvider = "janitor"
       THEN /\ pc' = "crawl"
            /\ nTermReq' = 0
            /\ nProviderReq' = 1
       ELSE IF /\ NeedsTermTranslation(term, enableTranslation)
               /\ ~TranslateDisabled(enableTranslation)
       THEN /\ pc' = "term"
            /\ nTermReq' = 1
            /\ nProviderReq' = 0
       ELSE /\ pc' = "search"
            /\ nTermReq' = 0
            /\ nProviderReq' = 1
    /\ UNCHANGED <<settings, chubCharacters>>
    /\ UNCHANGED calls

\* the first search after the extension is loaded
StartSearch(term) ==
    /\ pc = "idle"
    /\ BeginSearch(term)

\* a search called after an earlier one has settled
SearchAgain(term) ==
    /\ pc \in Terminal
    /\ BeginSearch(term)

\* translateToEnglish settles; the search request is issued
TermSettled(reply) ==
    /\ pc = "term"
    /\ termMisbehaved' = Misbehaves(reply, <<searchTerm>>)
    /\ LET r == translateText(searchTerm, reply)
       IN IF r.threw
          THEN /\ pc' = "rejected"
               /\ UNCHANGED <<processedSearchTerm, nProviderReq>>
          ELSE /\ pc' = "search"
               /\ processedSearchTerm' = r.value
               /\ nProviderReq' = nProviderReq + 1
    /\ UNCHANGED <<settings, chubCharacters, provider, searchTerm, nodes, img,
                   characterBlobs, characters, textsArray, translationResults,
                   result, searchReply, crawlReply, batchMisbehaved,
                   outOfOrder, nGetCharacter, nTermReq, nBatchReq, imgLog,
                   offWholeSearch>>
    /\ UNCHANGED calls

\* the list assigned to chubCharacters by "Clear previous search results"
ClearedList == <<>>

\* fetch(url) and searchResponse.json() settle; getCharacter is called for
\* every node
SearchSettled(reply) ==
    /\ pc = "search"
    /\ searchReply' = reply
    /\ IF reply.net = "throw" \/ reply.body = "unparsable"
       THEN /\ pc' = "rejected"
            /\ UNCHANGED <<chubCharacters, nodes, img, characterBlobs, result,
                           nGetCharacter, imgLog>>
       ELSE IF reply.body = "null"
       THEN /\ pc' = "rejected"
            /\ chubCharacters' = ClearedList
            /\ UNCHANGED <<nodes, img, characterBlobs, result, nGetCharacter,
                           imgLog>>
       ELSE LET found == ExtractNodes(Envelope(reply.shape, reply.nodes))
            IN /\ chubCharacters' = ClearedList
               /\ nodes' = found
               /\ IF NoNodes(found)
                  THEN /\ pc' = "done"
                       /\ result' = chubCharacters'
                       /\ UNCHANGED <<img, characterBlobs, nGetCharacter,
                                      imgLog>>
                  ELSE /\ pc' = "images"
                       /\ img' = [i \in 1..Len(found.list) |-> "post"]
                       /\ characterBlobs' = [i \in 1..Len(found.list) |-> NoBlob]
                       /\ nGetCharacter' = Len(found.list)
                       /\ imgLog' = [i \in 1..Len(found.list) |-> <<"POST">>]
                       /\ UNCHANGED result
    /\ UNCHANGED <<settings, provider, searchTerm, processedSearchTerm,
                   characters, textsArray, translationResults, crawlReply,
                   termMisbehaved, batchMisbehaved, outOfOrder, nTermReq, nBatchReq,
                   nProviderReq, offWholeSearch>>
    /\ UNCHANGED calls

\* mutant: values are pushed as the promises resolve
StoreResolved_InCompletionOrder(blobs, i, blob) ==
    LET slot == CHOOSE k \in 1..Len(blobs) :
                    blobs[k] = NoBlob /\ \A j \in 1..(k - 1) : blobs[j] # NoBlob
    IN [blobs EXCEPT ![slot] = blob]

\* Promise.all keeps the value of promise i at index i
StoreResolved(blobs, i, blob) == [blobs EXCEPT ![i] = blob]

\* mutant: the backup is also tried when the download request throws
AfterDownload_BackupOnThrow(outcome) ==
    IF outcome = "ok" THEN "done" ELSE "fallback"

\* where getCharacter stands after its first fetch: a thrown fetch rejects
\* the call, if (!response.ok) issues the backup request
AfterDownload(outcome) ==
    CASE outcome = "throw" -> "failed"
      [] outcome = "nonok" -> "fallback"
      [] OTHER -> "done"

\* getCharacter of node i: the download POST settles; a thrown request
\* rejects the promise and with it Promise.all and the search
GetCharacterPost(i, outcome) ==
    /\ pc = "images"
    /\ i \in 1..Len(img)
    /\ img[i] = "post"
    /\ img' = [img EXCEPT ![i] = AfterDownload(outcome)]
    /\ imgLog' = [imgLog EXCEPT ![i] =
                     IF AfterDownload(outcome) = "fallback"
                     THEN @ \o <<outcome, "GET">> ELSE Append(@, outcome)]
    /\ IF AfterDownload(outcome) = "done"
       THEN /\ characterBlobs' =
                  StoreResolved(characterBlobs, i,
                                Blob(nodes.list[i].fullPath, "download"))
            /\ outOfOrder' = (outOfOrder \/ \E j \in 1..(i - 1) : img[j] # "done")
       ELSE UNCHANGED <<characterBlobs, outOfOrder>>
    /\ pc' = (IF PromiseAll(img') = "rejected" THEN "rejected" ELSE pc)
    /\ UNCHANGED <<settings, chubCharacters, provider, searchTerm,
                   processedSearchTerm, nodes, characters, textsArray,
                   translationResults, result, replies, nGetCharacter,
                   nTermReq, nBatchReq, nProviderReq, offWholeSearch>>
    /\ UNCHANGED calls

\* data = await response.blob() after the backup request: the body of the
\* backup reply, whatever its status
BackupBlob(path, outcome) ==
    Blob(path, IF outcome = "ok" THEN "backup" ELSE "errorBody")

\* getCharacter of node i: the backup GET settles; the body is read
\* whatever the status
GetCharacterFallback(i, outcome) ==
    /\ pc = "images"
    /\ i \in 1..Len(img)
    /\ img[i] = "fallback"
    /\ imgLog' = [imgLog EXCEPT ![i] = Append(@, outcome)]
    /\ IF outcome = "throw"
       THEN /\ img' = [img EXCEPT ![i] = "failed"]
            /\ UNCHANGED <<characterBlobs, outOfOrder>>
       ELSE /\ img' = [img EXCEPT ![i] = "done"]
            /\ characterBlobs' =
                  StoreResolved(characterBlobs, i,
                                BackupBlob(nodes.list[i].fullPath, outcome))
            /\ outOfOrder' = (outOfOrder \/ \E j \in 1..(i - 1) : img[j] # "done")
    /\ pc' = (IF PromiseAll(img') = "rejected" THEN "rejected" ELSE pc)
    /\ UNCHANGED <<settings, chubCharacters, provider, searchTerm,
                   processedSearchTerm, nodes, characters, textsArray,
                   translationResults, result, replies, nGetCharacter,
                   nTermReq, nBatchReq, nProviderReq, offWholeSearch>>
    /\ UNCHANGED calls

\* Promise.all resolves; the texts are collected and either the batch request
\* is issued or the list is built with an empty map
ImagesJoined ==
    /\ pc = "images"
    /\ PromiseAll(img) = "resolved"
    /\ LET texts == CollectNodes(<<>>, nodes.list)
           map == IF NeedsBatch(texts, enableTranslation)
                  THEN IdentityMap(texts) ELSE EmptyMap
       IN IF /\ NeedsBatch(texts, enableTranslation)
             /\ ~BatchDisabled(enableTranslation)
          THEN /\ pc' = "batch"
               /\ textsArray' = texts
               /\ nBatchReq' = nBatchReq + 1
               /\ UNCHANGED <<chubCharacters, translationResults, result>>
          ELSE /\ pc' = "done"
               /\ translationResults' = map
               /\ chubCharacters' =
                     BuildChubCharacters(nodes.list, characterBlobs, map)
               /\ result' = chubCharacters'
               /\ UNCHANGED <<textsArray, nBatchReq>>
    /\ UNCHANGED <<settings, provider, searchTerm, processedSearchTerm, nodes,
                   img, characterBlobs, characters, replies, outOfOrder,
                   nGetCharacter, nTermReq, nProviderReq, imgLog,
                   offWholeSearch>>
    /\ UNCHANGED calls

\* batchTranslateToChinese settles; the final list is built
BatchSettled(reply) ==
    /\ pc = "batch"
    /\ batchMisbehaved' = Misbehaves(reply, textsArray)
    /\ LET r == batchTranslateSettled(textsArray, reply)
       IN IF r.threw
          THEN /\ pc' = "rejected"
               /\ UNCHANGED <<chubCharacters, translationResults, result>>
          ELSE /\ pc' = "done"
               /\ translationResults' = r.value
               /\ chubCharacters' =
                     BuildChubCharacters(nodes.list, characterBlobs, r.value)
               /\ result' = chubCharacters'
    /\ UNCHANGED <<settings, provider, searchTerm, processedSearchTerm, nodes,
                   img, characterBlobs, characters, textsArray, searchReply,
                   crawlReply, termMisbehaved, outOfOrder, counters,
                   offWholeSearch>>
    /\ UNCHANGED calls

\* fetchCharactersFromJanitor: the crawl fetch and its json() settle
CrawlSettled(reply) ==
    /\ pc = "crawl"
    /\ crawlReply' = reply
    /\ LET parsed == ParseCrawl(reply)
           texts == CollectCharacters(<<>>, parsed.characters)
           map == IF NeedsBatch(texts, enableTranslation)
                  THEN IdentityMap(texts) ELSE EmptyMap
       IN IF parsed.kind = "thrown"
          THEN /\ pc' = "rejected"
               /\ UNCHANGED <<characters, textsArray, translationResults,
                              result, nBatchReq>>
          ELSE IF parsed.kind = "empty"
          THEN /\ pc' = "done"
               /\ result' = <<>>
               /\ UNCHANGED <<characters, textsArray, translationResults,
                              nBatchReq>>
          ELSE IF /\ NeedsBatch(texts, enableTranslation)
                  /\ ~BatchDisabled(enableTranslation)
          THEN /\ pc' = "jbatch"
               /\ characters' = parsed.characters
               /\ textsArray' = texts
               /\ nBatchReq' = nBatchReq + 1
               /\ UNCHANGED <<translationResults, result>>
          ELSE /\ pc' = "done"
               /\ characters' = parsed.characters
               /\ translationResults' = map
               /\ result' = ApplyTranslations(parsed.characters, map)
               /\ UNCHANGED <<textsArray, nBatchReq>>
    /\ UNCHANGED <<settings, chubCharacters, provider, searchTerm,
                   processedSearchTerm, nodes, img, characterBlobs, searchReply,
                   termMisbehaved, batchMisbehaved, outOfOrder, nGetCharacter,
                   nTermReq, nProviderReq, imgLog, offWholeSearch>>
    /\ UNCHANGED calls

\* applyTranslationsToCharacters: the batch settles inside the adapter's try
JanitorBatchSettled(reply) ==
    /\ pc = "jbatch"
    /\ batchMisbehaved' = Misbehaves(reply, textsArray)
    /\ LET r == batchTranslateSettled(textsArray, reply)
       IN IF r.threw
          THEN /\ pc' = "done"
               /\ result' = <<>>
               /\ UNCHANGED translationResults
          ELSE /\ pc' = "done"
               /\ translationResults' = r.value
               /\ result' = ApplyTranslations(characters, r.value)
    /\ UNCHANGED <<settings, chubCharacters, provider, searchTerm,
                   processedSearchTerm, nodes, img, characterBlobs, characters,
                   textsArray, searchReply, crawlReply, termMisbehaved,
                   outOfOrder, counters, offWholeSearch>>
    /\ UNCHANGED calls

FetchOutcomes == {"throw", "nonok", "ok"}

\* Spec follows one search from the settings the user chose before it to
\* its settlement; the settings events after it has settled belong to the
\* next search (SpecSeq)
Next ==
    \/ pc \notin Terminal /\ ToggleTranslation
    \/ \E p \in Providers : pc = "idle" /\ ChangeProvider(p)
    \/ \E term \in SearchTerms : StartSearch(term)
    \/ \E reply \in ServiceReplies(<<searchTerm>>, "en") : TermSettled(reply)
    \/ \E reply \in SearchReplies : SearchSettled(reply)
    \/ \E i \in 1..MaxNodes, o \in FetchOutcomes : GetCharacterPost(i, o)
    \/ \E i \in 1..MaxNodes, o \in FetchOutcomes : GetCharacterFallback(i, o)
    \/ ImagesJoined
    \/ \E reply \in ServiceReplies(textsArray, "zh-CN") : BatchSettled(reply)
    \/ \E reply \in CrawlReplies : CrawlSettled(reply)
    \/ \E reply \in ServiceReplies(textsArray, "zh-CN") : JanitorBatchSettled(reply)

Spec == Init /\ [][Next]_vars

(* ------------------- searches that follow one another ----------------- *)
\* replies of one-item pages at most, and of the translation service either
\* a thrown request or the full translation
SeqSearchReplies == {r \in SearchReplies : r.shape # "nested" /\ Len(r.nodes) <= 1}
SeqCrawlReplies ==
    {r \in CrawlReplies :
        r.net = "nonok" \/ (r.payload = "data" /\ Len(r.items) <= 1)}
SeqServiceReplies(texts, target) ==
    {r \in ServiceReplies(texts, target) :
        r.net = "throw" \/ ~Misbehaves(r, texts)}

\* searches called one after the other has settled, the settings changed at
\* any time between and during them
NextSeq ==
    \/ ToggleTranslation
    \/ \E p \in Providers : ChangeProvider(p)
    \/ \E term \in SearchTerms : StartSearch(term)
    \/ \E term \in SearchTerms : SearchAgain(term)
    \/ \E reply \in SeqServiceReplies(<<searchTerm>>, "en") : TermSettled(reply)
    \/ \E reply \in SeqSearchReplies : SearchSettled(reply)
    \/ \E o \in FetchOutcomes : GetCharacterPost(1, o)
    \/ \E o \in FetchOutcomes : GetCharacterFallback(1, o)
    \/ ImagesJoined
    \/ \E reply \in SeqServiceReplies(textsArray, "zh-CN") : BatchSettled(reply)
    \/ \E reply \in SeqCrawlReplies : CrawlSettled(reply)
    \/ \E reply \in SeqServiceReplies(textsArray, "zh-CN") :
          JanitorBatchSettled(reply)

SpecSeq == Init /\ [][NextSeq]_vars

(* ------------- batchTranslateToChinese called on its own -------------- *)
\* arrays of unique strings
BatchTexts == {sA, sB, tagT, tagZh}
UniqueArrays ==
    {t \in UNION {[1..n -> BatchTexts] : n \in 0..MaxTexts} :
        \A i, j \in 1..Len(t) : i # j => t[i] # t[j]}

\* batchTranslateToChinese up to its fetch: the identity map when
\* translation is disabled, else the request is issued
BatchCall(texts) ==
    /\ bpc = "idle"
    /\ bTexts' = texts
    /\ IF BatchDisabled(enableTranslation)
       THEN /\ bpc' = "returned"
            /\ bResult' = IdentityMap(texts)
       ELSE /\ bpc' = "fetch"
            /\ UNCHANGED bResult
    /\ UNCHANGED <<bReply, enableTranslation, pipeline, textCall, ui, req>>

\* the request settles and the function returns
BatchReturn(reply) ==
    /\ bpc = "fetch"
    /\ bReply' = reply
    /\ LET r == batchTranslateSettled(bTexts, reply)
       IN IF r.threw
          THEN /\ bpc' = "threw"
               /\ UNCHANGED bResult
          ELSE /\ bpc' = "returned"
               /\ bResult' = r.value
    /\ UNCHANGED <<bTexts, enableTranslation, pipeline, textCall, ui, req>>

\* the translation checkbox changes while the call is idle or in flight
BatchToggle ==
    /\ bpc \in {"idle", "fetch"}
    /\ enableTranslation' = ~enableTranslation
    /\ UNCHANGED <<batchCall, pipeline, textCall, ui, req>>

NextBatch ==
    \/ BatchToggle
    \/ \E texts \in UniqueArrays : BatchCall(texts)
    \/ \E reply \in ServiceReplies(bTexts, "zh-CN") : BatchReturn(reply)

SpecBatch == Init /\ [][NextBatch]_vars

(* ------------------ every caller of the translation endpoint ---------- *)
TargetLanguages == {"en", "zh-CN"}

\* translateText up to its fetch: the text itself when translation is
\* disabled, else the request is issued
TextCall(text, target) ==
    /\ tpc = "idle"
    /\ tText' = text
    /\ tTarget' = target
    /\ IF TranslateDisabled(enableTranslation)
       THEN /\ tpc' = "returned"
            /\ tResult' = text
       ELSE /\ tpc' = "fetch"
            /\ UNCHANGED tResult
    /\ UNCHANGED <<tReply, enableTranslation, pipeline, batchCall, ui, req>>

\* the request settles and translateText returns
TextReturn(reply) ==
    /\ tpc = "fetch"
    /\ tReply' = reply
    /\ tpc' = "returned"
    /\ tResult' = translateText(tText, reply).value
    /\ UNCHANGED <<tText, tTarget, enableTranslation, pipeline, batchCall, ui, req>>

\* the two functions called on their own, or one search
NextEndpoint ==
    \/ pc = "idle" /\ tpc = "idle" /\ NextBatch
    \/ pc = "idle" /\ bpc = "idle" /\
          \E text \in BatchTexts, target \in TargetLanguages : TextCall(text, target)
    \/ \E reply \in ServiceReplies(<<tText>>, tTarget) : TextReturn(reply)
    \/ bpc = "idle" /\ tpc = "idle" /\ Next

SpecEndpoint == Init /\ [][NextEndpoint]_vars

(* ----------------------- tags of a provider request ------------------- *)
\* the limit of includeTags.join(',').slice(0, 100)
TagLimit == 100

\* index of the first "," of str, 0 when there is none
FirstComma(str) ==
    IF "," \in Range(str)
    THEN CHOOSE k \in 1..Len(str) :
             str[k] = "," /\ \A j \in 1..(k - 1) : str[j] # ","
    ELSE 0

\* str.split(',')
RECURSIVE SplitComma(_)
SplitComma(str) ==
    IF FirstComma(str) = 0 THEN <<str>>
    ELSE <<SubSeq(str, 1, FirstComma(str) - 1)>>
             \o SplitComma(SubSeq(str, FirstComma(str) + 1, Len(str)))

\* tags.join(',')
RECURSIVE JoinComma(_)
JoinComma(tags) ==
    IF tags = <<>> THEN <<>>
    ELSE IF Len(tags) = 1 THEN tags[1]
    ELSE tags[1] \o <<",">> \o JoinComma(Tail(tags))

\* str.slice(0, n)
Slice(str, n) == SubSeq(str, 1, IF Len(str) < n THEN Len(str) ELSE n)

TrimAll(tags) == [i \in 1..Len(tags) |-> Trim(tags[i])]
NonEmpty(t) == Len(t) > 0

\* splitAndTrim of handleSearch
splitAndTrim(str) ==
    IF "," \notin Range(Trim(str)) THEN <<Trim(str)>>
    ELSE TrimAll(SplitComma(Trim(str)))

\* the &topics= / &excludetopics= parameter of the primary catalog: the tags
\* the receiver gets by splitting the value at its commas
ChubTagParam(tags) ==
    IF Len(SelectSeq(tags, NonEmpty)) > 0
    THEN Param(SplitComma(Slice(JoinComma(SelectSeq(tags, NonEmpty)), TagLimit)))
    ELSE NoParam

\* tag && tag.trim().length > 0
ValidTag(t) == Truthy(t) /\ Len(Trim(t)) > 0

\* the custom_tags[]= parameters of the secondary catalog
JanitorTagParam(tags) ==
    IF Len(SelectSeq(tags, ValidTag)) > 0
    THEN Param(TrimAll(SelectSeq(tags, ValidTag)))
    ELSE NoParam

\* a run of n characters c
Rep(c, n) == [i \in 1..n |-> c]

\* what the user may have typed into #includeTags or #excludeTags
TagInputs ==
    {<<>>, <<" ">>, <<",">>, <<" ", ",", " ">>, <<"a">>,
     <<" ", "a", " ", ",", " ", "b">>, <<"a", ",", ",", "b">>,
     Rep("x", TagLimit - 1) \o <<",", "y">>,
     Rep("x", TagLimit - 1) \o <<" ", "z">>}

\* handleSearch reads the two tag inputs into the options
FormRead(include, exclude) ==
    /\ qpc = "idle"
    /\ qpc' = "options"
    /\ qInclude' = splitAndTrim(include)
    /\ qExclude' = splitAndTrim(exclude)
    /\ UNCHANGED <<qProvider, qTopics, qExcludeTopics>>
    /\ UNCHANGED <<enableTranslation, pipeline, batchCall, textCall, ui>>

\* the URL of the provider request is built from the options; the secondary
\* catalog has no exclude parameter
RequestBuilt(p) ==
    /\ qpc = "options"
    /\ qpc' = "built"
    /\ qProvider' = p
    /\ IF p = "janitor"
       THEN /\ qTopics' = JanitorTagParam(qInclude)
            /\ qExcludeTopics' = NoParam
       ELSE /\ qTopics' = ChubTagParam(qInclude)
            /\ qExcludeTopics' = ChubTagParam(qExclude)
    /\ UNCHANGED <<qInclude, qExclude>>
    /\ UNCHANGED <<enableTranslation, pipeline, batchCall, textCall, ui>>

NextRequest ==
    \/ \E include \in TagInputs, exclude \in TagInputs : FormRead(include, exclude)
    \/ \E p \in Providers : RequestBuilt(p)

SpecRequest == Init /\ [][NextRequest]_vars

(* ------------------------- popup and search form ---------------------- *)
backend == <<enableTranslation, pipeline, batchCall, textCall, req>>

\* selectedTags of updateCharacterListInView: the include-tag input split at
\* its commas, trimmed, without the empty pieces
SelectedTags(value) == SelectSeq(TrimAll(SplitComma(value)), Truthy)

\* the <span class="tag"> generateCharacterListItem writes for one tag
TagElement(tag, selectedTags) ==
    LET tagText == Or(tag.text, tag.original)
        tagDataValue == Or(tag.dataValue, tag.original)
    IN [text |-> tagText,
        dataValue |-> tagDataValue,
        original |-> tag.original,
        selected |-> tagDataValue \in Range(selectedTags)]

\* the tag elements of one list item: a tag whose display text was already
\* written is skipped (processedTags)
RECURSIVE TagElements(_, _)
TagElements(tags, selectedTags) ==
    IF tags = <<>> THEN <<>>
    ELSE LET init == TagElements(SubSeq(tags, 1, Len(tags) - 1), selectedTags)
             last == TagElement(tags[Len(tags)], selectedTags)
         IN IF \E j \in 1..Len(init) : init[j].text = last.text THEN init
            ELSE Append(init, last)

\* the tags of the record a search with results shows: one translated, one
\* left as it came
ListTags ==
    <<TagObject(tagT, [k \in {tagT} |-> ServiceTranslate(tagT, "zh-CN")]),
      TagObject(tagZh, EmptyMap)>>

\* tags.join(', ')
RECURSIVE JoinCommaSpace(_)
JoinCommaSpace(tags) ==
    IF tags = <<>> THEN <<>>
    ELSE IF Len(tags) = 1 THEN tags[1]
    ELSE tags[1] \o <<",", " ">> \o JoinCommaSpace(Tail(tags))

\* the include-tag input after a click on a tag element: the tag value is
\* set, removed or appended
ToggledTags(value, tagValue) ==
    LET currentValue == Trim(value)
        existingTags == TrimAll(SplitComma(currentValue))
        Other(t) == t # tagValue
    IN IF currentValue = <<>> THEN tagValue
       ELSE IF tagValue \in Range(existingTags)
       THEN JoinCommaSpace(SelectSeq(existingTags, Other))
       ELSE currentValue \o <<",", " ">> \o tagValue

\* mutant: the pending timer is left running and keeps its arguments
Debounced_NoClear(armed, left, options, newOptions) ==
    IF armed THEN [armed |-> TRUE, left |-> left, options |-> options]
    ELSE [armed |-> TRUE, left |-> QuietTicks, options |-> newOptions]

\* executeCharacterSearchDebounced(options): debounce clears the pending
\* timer and sets a new one of 750 ms that will call executeCharacterSearch
\* with the arguments of this call
Debounced(armed, left, options, newOptions) ==
    [armed |-> TRUE, left |-> QuietTicks, options |-> newOptions]

\* isPageButton || isPageNumberInput
PageControls == {"pageUpButton", "pageDownButton", "pageNumber"}

\* handleSearch(e): the options are read from the form, the page is set to
\* 1 unless the event comes from a page control, and the debounced search is
\* called.  A timer that is due runs before any later event is handled.
handleSearch(target, term, include, pageValue) ==
    LET page == IF target \in PageControls THEN pageValue ELSE 1
        options == Options(term, page, splitAndTrim(include))
        timer == Debounced(dArmed, dLeft, dOptions, options)
    IN /\ nTriggers < MaxTriggers
       /\ ~(dArmed /\ dLeft = 0)
       /\ uTerm' = term
       /\ uPage' = page
       /\ uInclude' = include
       /\ dArmed' = timer.armed
       /\ dLeft' = timer.left
       /\ dOptions' = timer.options
       /\ lastOptions' = options
       /\ sinceTrigger' = 0
       /\ nTriggers' = nTriggers + 1
       /\ nBursts' = (IF dArmed THEN nBursts ELSE nBursts + 1)
       /\ UNCHANGED <<uSearches, uView, uContainer, uSearching, uError>>
       /\ UNCHANGED backend

PopupOpen == uContainer = "attached"

\* 'change' of #characterSearchInput
TypeTerm(term) ==
    /\ PopupOpen
    /\ term # uTerm
    /\ handleSearch("characterSearchInput", term, uInclude, uPage)

\* 'click' of #characterSearchButton
ClickSearch ==
    /\ PopupOpen
    /\ handleSearch("characterSearchButton", uTerm, uInclude, uPage)

\* Math.max(1, n)
AtLeastOne(n) == IF n < 1 THEN 1 ELSE n

\* 'click' of #pageUpButton: Math.max(1, page + 1)
PageUp ==
    /\ PopupOpen
    /\ uPage < MaxPage
    /\ handleSearch("pageUpButton", uTerm, uInclude, AtLeastOne(uPage + 1))

\* 'click' of #pageDownButton: Math.max(1, page - 1)
PageDown ==
    /\ PopupOpen
    /\ handleSearch("pageDownButton", uTerm, uInclude, AtLeastOne(uPage - 1))

\* the numbers the user may type into #pageNumber (type="number" min="1":
\* the minimum limits the spinner, not what is typed)
PageEdits == {0, MaxPage}

\* 'change' of #pageNumber after the user typed n: handleSearch reads the
\* value as it is
EditPage(n) ==
    /\ PopupOpen
    /\ n # uPage
    /\ handleSearch("pageNumber", uTerm, uInclude, n)

\* what the user may type into #includeTags: nothing, a tag, the display
\* text of a translated tag
TagEdits == {<<>>, tagT, ServiceTranslate(tagT, "zh-CN")}

\* 'keyup' of #includeTags after the user changed it to value
TypeTags(value) ==
    /\ PopupOpen
    /\ value # uInclude
    /\ handleSearch("includeTags", uTerm, value, uPage)

\* 'click' on tag element j of the list: the include-tag input is toggled
\* and a 'change' event is dispatched on it, for which it has no listener
ClickTag(j) ==
    /\ PopupOpen
    /\ j \in 1..Len(uView.tags)
    /\ uInclude' = ToggledTags(uInclude,
                               Or(uView.tags[j].dataValue,
                                  Trim(uView.tags[j].text)))
    /\ UNCHANGED <<uTerm, uPage, dArmed, dLeft, dOptions, uSearches, uView,
                   uContainer, uSearching, uError, nTriggers, nBursts,
                   lastOptions, sinceTrigger>>
    /\ UNCHANGED backend

\* time passes while the timer is set and not yet due
Tick ==
    /\ dArmed
    /\ dLeft > 0
    /\ dLeft' = dLeft - 1
    /\ sinceTrigger' = (IF sinceTrigger < QuietTicks THEN sinceTrigger + 1
                        ELSE sinceTrigger)
    /\ UNCHANGED <<uTerm, uPage, uInclude, dArmed, dOptions, uSearches, uView,
                   uContainer, uSearching, uError, nTriggers, nBursts,
                   lastOptions>>
    /\ UNCHANGED backend

\* displayCharactersInListViewPopup: the popup is shown and
\* characterListContainer refers to its list element
OpenPopup ==
    /\ uContainer # "attached"
    /\ uContainer' = "attached"
    /\ UNCHANGED <<uTerm, uPage, uInclude, dArmed, dLeft, dOptions, uSearches, uView,
                   uSearching, uError, nTriggers, nBursts, lastOptions,
                   sinceTrigger>>
    /\ UNCHANGED backend

\* the popup is closed: the list element leaves the document, the variable
\* keeps referring to it
ClosePopup ==
    /\ uContainer = "attached"
    /\ uContainer' = "detached"
    /\ UNCHANGED <<uTerm, uPage, uInclude, dArmed, dLeft, dOptions, uSearches, uView,
                   uSearching, uError, nTriggers, nBursts, lastOptions,
                   sinceTrigger>>
    /\ UNCHANGED backend

\* a call of executeCharacterSearch: its options, where it stands and what
\* fetchCharactersBySearch gave it
Search(options, st) == [options |-> options, st |-> st]

\* the timer is due: executeCharacterSearch(options) runs up to the await in
\* searchCharacters
Execute ==
    /\ dArmed
    /\ dLeft = 0
    /\ dArmed' = FALSE
    /\ uSearches' = Append(uSearches, Search(dOptions, "flight"))
    /\ uContainer' = (IF uContainer = "detached" THEN "null" ELSE uContainer)
    /\ uSearching' = (IF uContainer' # "null" THEN TRUE ELSE uSearching)
    /\ UNCHANGED <<uTerm, uPage, uInclude, dLeft, dOptions, uView, uError, nTriggers,
                   nBursts, lastOptions, sinceTrigger>>
    /\ UNCHANGED backend

SettleOutcomes == {"list", "empty", "rejected"}

\* fetchCharactersBySearch of call k settles; searchCharacters and
\* executeCharacterSearch run to their end
Settle(k, outcome) ==
    /\ k \in 1..Len(uSearches)
    /\ uSearches[k].st = "flight"
    /\ uSearches' = [uSearches EXCEPT ![k].st = outcome]
    /\ IF outcome = "rejected"
       THEN UNCHANGED <<uSearching, uView, uError>>
       ELSE /\ uSearching' = (IF uContainer # "null" THEN FALSE ELSE uSearching)
            /\ IF outcome = "list"
               THEN /\ uView' = (IF uContainer # "null"
                                 THEN View(k, "list",
                                           TagElements(ListTags,
                                                       SelectedTags(uInclude)))
                                 ELSE uView)
                    /\ UNCHANGED uError
               ELSE IF uContainer # "null"
               THEN /\ uView' = View(k, "none found", <<>>)
                    /\ UNCHANGED uError
               ELSE /\ uError' = TRUE
                    /\ UNCHANGED uView
    /\ UNCHANGED <<uTerm, uPage, uInclude, dArmed, dLeft, dOptions, uContainer,
                   nTriggers, nBursts, lastOptions, sinceTrigger>>
    /\ UNCHANGED backend

FormTerms == {<<>>, sA}

NextUI ==
    \/ OpenPopup
    \/ ClosePopup
    \/ \E term \in FormTerms : TypeTerm(term)
    \/ ClickSearch
    \/ PageUp
    \/ PageDown
    \/ Tick
    \/ Execute
    \/ \E k \in 1..MaxTriggers, o \in SettleOutcomes : Settle(k, o)

SpecUI == Init /\ [][NextUI]_vars

\* the clock runs and a due timer callback is run
SpecUIFair == SpecUI /\ WF_vars(Tick) /\ WF_vars(Execute)

\* the page controls of the popup: buttons, direct edits, the search button
NextPage ==
    \/ OpenPopup
    \/ ClickSearch
    \/ PageUp
    \/ PageDown
    \/ \E n \in PageEdits : EditPage(n)
    \/ Tick
    \/ Execute
    \/ \E k \in 1..MaxTriggers, o \in SettleOutcomes : Settle(k, o)

SpecPage == Init /\ [][NextPage]_vars

\* ... and every request of a search settles, one way or the other
SpecUISettles ==
    SpecUIFair /\ WF_vars(\E k \in 1..MaxTriggers, o \in SettleOutcomes : Settle(k, o))

\* the tags of the popup: the include-tag input and clicks on listed tags
NextTags ==
    \/ OpenPopup
    \/ ClickSearch
    \/ \E value \in TagEdits : TypeTags(value)
    \/ \E j \in 1..Len(ListTags) : ClickTag(j)
    \/ Tick
    \/ Execute
    \/ \E k \in 1..MaxTriggers, o \in SettleOutcomes : Settle(k, o)

SpecTags == Init /\ [][NextTags]_vars

SpecTagsFair == SpecTags /\ WF_vars(Tick) /\ WF_vars(Execute)

(* ------------------------------ properties ---------------------------- *)
\* the provider's tag strings of record i, before translation
SourceTags(i) ==
    IF provider = "chub"
    THEN (IF nodes.list[i].topics.isArray THEN nodes.list[i].topics.list
          ELSE <<>>)
    ELSE characters[i].tags

\* the primary endpoint answered with a node list, in either envelope shape
GotNodeList == provider = "chub" /\ searchReply.shape \in {"top", "nested"}

Occurrences(seq, t) == Cardinality({i \in 1..Len(seq) : seq[i] = t})

\* C1: when translation is disabled during the whole search, every returned
\* record has name = originalName and description = originalDescription and
\* none of its tags is marked translated (either provider).
C1_IdentityWhenDisabled ==
    (pc = "done" /\ offWholeSearch) =>
        \A i \in 1..Len(result) :
            /\ result[i].name = result[i].originalName
            /\ result[i].description = result[i].originalDescription
            /\ \A j \in 1..Len(result[i].tags) : ~result[i].tags[j].translated

\* C2: the map returned by batchTranslateToChinese has a key for every text
\* of its argument under every reply of the service and when translation is
\* disabled, the call never throws, and after a thrown transport error or a
\* non-OK status every value equals its key.
C2_TotalTranslationMap ==
    /\ bpc # "threw"
    /\ bpc = "returned" =>
        /\ \A i \in 1..Len(bTexts) : bTexts[i] \in DOMAIN bResult
        /\ bReply.net \in {"throw", "nonok"} =>
              \A i \in 1..Len(bTexts) : bResult[bTexts[i]] = bTexts[i]

\* C2 witness: the call returned after a reply whose translations array is
\* shorter than the texts array.
C2_Witness ==
    /\ bpc = "returned"
    /\ Len(bTexts) >= 2
    /\ bReply.net = "ok" /\ bReply.success /\ bReply.trKind = "array"
    /\ Len(bReply.items) < Len(bTexts)

\* C3: in every returned record, each tag object's original and dataValue are
\* one of the provider's tag strings of that record, whatever the translation
\* map holds; only text may differ.
C3_TagValuesArePretranslation ==
    pc = "done" =>
        \A i \in 1..Len(result) :
            /\ Len(result[i].tags) = Cardinality(Range(SourceTags(i)))
            /\ \A j \in 1..Len(result[i].tags) :
                  /\ result[i].tags[j].original \in Range(SourceTags(i))
                  /\ result[i].tags[j].dataValue = result[i].tags[j].original

\* C3 witness: a returned tag whose display text differs from its original.
C3_Witness ==
    /\ pc = "done"
    /\ \E i \in 1..Len(result) : \E j \in 1..Len(result[i].tags) :
          /\ result[i].tags[j].translated
          /\ result[i].tags[j].text # result[i].tags[j].original

\* C4: whatever the completion order of the getCharacter calls, record i of a
\* primary-provider result is built from node i and from node i's image blob.
C4_OrderPreserved ==
    (pc = "done" /\ GotNodeList) =>
        /\ Len(result) = Len(searchReply.nodes)
        /\ \A i \in 1..Len(result) :
              /\ result[i].fullPath = searchReply.nodes[i].fullPath
              /\ result[i].originalName = searchReply.nodes[i].name
              /\ result[i].url.path = searchReply.nodes[i].fullPath

\* C4 witness: a search of two different nodes finished although the image of
\* the second node resolved before the image of the first.
C4_Witness ==
    /\ pc = "done" /\ GotNodeList /\ outOfOrder
    /\ Len(result) = 2
    /\ result[1].fullPath # result[2].fullPath

\* C5 (as claimed): an empty node list makes the search resolve to [] with no
\* getCharacter request and no request to the translation service at all.
C5_NoRequestOnEmpty ==
    (pc = "done" /\ GotNodeList /\ searchReply.nodes = <<>>) =>
        /\ result = <<>>
        /\ nGetCharacter = 0
        /\ nTermReq = 0
        /\ nBatchReq = 0

\* C5 (amended): an empty node list makes the search resolve to [] with no
\* getCharacter request and no batch translation request; the only request to
\* the translation service is at most one search-term translation, made for a
\* term that contains Chinese characters.
C5_NoImageOrBatchOnEmpty ==
    (pc = "done" /\ GotNodeList /\ searchReply.nodes = <<>>) =>
        /\ result = <<>>
        /\ nGetCharacter = 0
        /\ nBatchReq = 0
        /\ nTermReq <= 1
        /\ nTermReq = 1 => (Truthy(searchTerm) /\ containsChinese(searchTerm))

\* C5 witness: an empty node list arrived after the search term was sent to
\* the translation service.
C5_Witness ==
    /\ pc = "done" /\ GotNodeList /\ searchReply.nodes = <<>>
    /\ nTermReq = 1

\* C6: the texts array of the batch request holds no string twice and holds
\* every translatable tag of the page exactly once, and tags with the same
\* original value get the same display text in every record.
C6_BatchDeduplicated ==
    /\ \A t \in Range(textsArray) : Occurrences(textsArray, t) = 1
    /\ nBatchReq = 1 =>
          \A i \in 1..(IF provider = "chub" THEN Len(nodes.list)
                       ELSE Len(characters)) :
              \A t \in Range(SourceTags(i)) :
                  (Truthy(t) /\ ~containsChinese(t)) =>
                      Occurrences(textsArray, t) = 1
    /\ pc = "done" =>
          \A i1, i2 \in 1..Len(result) :
              \A j1 \in 1..Len(result[i1].tags) :
                  \A j2 \in 1..Len(result[i2].tags) :
                      result[i1].tags[j1].original = result[i2].tags[j2].original
                          => result[i1].tags[j1].text = result[i2].tags[j2].text

\* C6 witness: two records of one page share a tag that was translated.
C6_Witness ==
    /\ pc = "done" /\ nBatchReq = 1 /\ Len(result) = 2
    /\ \E j1 \in 1..Len(result[1].tags) : \E j2 \in 1..Len(result[2].tags) :
          /\ result[1].tags[j1].original = result[2].tags[j2].original
          /\ result[1].tags[j1].translated

\* C7: the envelopes { nodes: N } and { data: { nodes: N } } yield the same
\* node list, and the returned records depend on N, the image blobs and the
\* translation map only, not on the envelope shape.
C7_EnvelopeShapesAgree ==
    (GotNodeList /\ pc \in {"images", "batch", "done", "rejected"}) =>
        /\ ExtractNodes(Envelope("top", searchReply.nodes))
              = ExtractNodes(Envelope("nested", searchReply.nodes))
        /\ nodes = Arr(searchReply.nodes)
        /\ pc = "done" =>
              result = BuildChubCharacters(searchReply.nodes, characterBlobs,
                                           translationResults)

\* C7 witness: a search answered with the nested envelope returned two records.
C7_Witness ==
    /\ pc = "done" /\ provider = "chub" /\ searchReply.shape = "nested"
    /\ Len(result) = 2

\* C8: at every failure point of the secondary adapter (non-OK or thrown crawl
\* request, envelope without result._results entries, page without pre,
\* invalid JSON, payload whose data is no array) the search resolves to [].
C8_JanitorFailuresGiveEmpty ==
    (provider = "janitor" /\ crawlReply # NoCrawlReply /\ CrawlFailed(crawlReply))
        => (pc = "done" /\ result = <<>>)

\* C8 witness: the adapter returned after a page whose pre text is no JSON.
C8_Witness ==
    /\ provider = "janitor" /\ pc = "done"
    /\ crawlReply.payload = "invalidJson"

\* C9: for both providers a thrown or non-OK provider search request, or an
\* unparsable body, makes the search resolve to the empty list, never reject.
C9_SearchFailureGivesEmpty ==
    (/\ pc \in Terminal
     /\ \/ /\ provider = "chub"
           /\ \/ searchReply.net \in {"throw", "nonok"}
              \/ searchReply.body = "unparsable"
        \/ /\ provider = "janitor"
           /\ \/ crawlReply.net \in {"throw", "nonok"}
              \/ crawlReply.body = "unparsable")
        => (pc = "done" /\ result = <<>>)

\* C10: a search is rejected only by its provider request or an image, never
\* by the translation service, and a search whose provider returned k items
\* resolves with k records in provider order whatever the term and batch
\* translation replies were.
C10_TranslationNeverFailsSearch ==
    /\ pc = "rejected" =>
          \/ searchReply.net = "throw"
          \/ searchReply.body \in {"unparsable", "null"}
          \/ \E i \in 1..Len(img) : img[i] = "failed"
    /\ (pc = "done" /\ GotNodeList) =>
          /\ Len(result) = Len(searchReply.nodes)
          /\ \A i \in 1..Len(result) :
                result[i].fullPath = searchReply.nodes[i].fullPath
    /\ (pc = "done" /\ provider = "janitor" /\ crawlReply.payload = "data") =>
          /\ Len(result) = Len(crawlReply.items)
          /\ \A i \in 1..Len(result) :
                result[i].fullPath = crawlReply.items[i].id

\* C10 witness: a two-record search finished after defective replies to both
\* the term translation and the batch translation.
C10_Witness ==
    /\ pc = "done" /\ termMisbehaved /\ batchMisbehaved
    /\ Len(result) = 2

\* a string the pipeline would send to the translation service
Translatable(t) == Truthy(t) /\ ~containsChinese(t)

\* the translatable display strings of the page the search got
PageTranslatable ==
    IF provider = "chub"
    THEN {t \in UNION {{n.name, NodeDescription(n)}
                          \cup (IF n.topics.isArray THEN Range(n.topics.list)
                                ELSE {}) : n \in Range(nodes.list)} :
             Translatable(t)}
    ELSE {t \in UNION {{c.name, c.description} \cup Range(c.tags) :
                          c \in Range(characters)} : Translatable(t)}

\* C11: every search issues at most one batch translation request: exactly
\* one when translation is enabled at the merge and the page holds a
\* translatable string, none otherwise, however many strings or records the
\* page has; the map a search merges is empty when it issued no request and
\* else has exactly the page's translatable strings as keys, so no map of an
\* earlier search is used.
C11_OneBatchRequestPerSearch ==
    [][/\ nBatchReq' \in {0, 1}
       /\ (pc \in {"images", "crawl"} /\ pc' \in {"batch", "jbatch", "done"}) =>
             (nBatchReq' = 1 <=> (enableTranslation /\ PageTranslatable' # {}))
       /\ nBatchReq' > nBatchReq =>
             (pc \in {"images", "crawl"} /\ pc' \in {"batch", "jbatch"})
       /\ pc' = "done" =>
             IF nBatchReq' = 0 THEN translationResults' = EmptyMap
             ELSE DOMAIN translationResults' = PageTranslatable']_vars

\* C11 witness: a secondary-catalog search issued its batch request while
\* chubCharacters still holds records an earlier search had translated.
C11_Witness ==
    /\ pc = "jbatch" /\ nBatchReq = 1
    /\ Len(chubCharacters) = 1 /\ chubCharacters[1].nameTranslated

\* C12: no request goes to the translation endpoint while enableTranslation
\* is false: a disabled translateText returns its input, a disabled
\* batchTranslateToChinese returns the identity map, both without a request,
\* and the search issues neither the term request nor the batch request.
C12_NoRequestWhileDisabled ==
    [][/\ (\/ tpc # "fetch" /\ tpc' = "fetch"
           \/ bpc # "fetch" /\ bpc' = "fetch"
           \/ nTermReq' > nTermReq
           \/ nBatchReq' > nBatchReq) => enableTranslation
       /\ (tpc = "idle" /\ tpc' # "idle" /\ ~enableTranslation) =>
             (tpc' = "returned" /\ tResult' = tText' /\ tReply' = NoReply)
       /\ (bpc = "idle" /\ bpc' # "idle" /\ ~enableTranslation) =>
             (/\ bpc' = "returned" /\ bReply' = NoReply
              /\ bResult' = IdentityMap(bTexts'))]_vars

\* C12 witness: translateText, called with a Chinese text while translation
\* is disabled, has returned without a request.
C12_Witness ==
    /\ tpc = "returned" /\ tReply = NoReply
    /\ containsChinese(tText) /\ tResult = tText

\* the calls of executeCharacterSearch that have settled with a result
Completed == {k \in 1..Len(uSearches) : uSearches[k].st \in {"list", "empty"}}

\* C13: once two searches have both completed, in whatever order, the list
\* element shows the result of the one that started later.
C13_LatestSearchWins ==
    (/\ Len(uSearches) = 2
     /\ Completed = {1, 2}
     /\ uContainer = "attached") => uView.by = 2

\* C14: a search is executed only when a full quiet period has passed since
\* the latest trigger, with the options that trigger captured; a run of
\* triggers each inside the quiet period of the one before gets exactly one
\* search: none while the timer is pending, one once it has run, and a
\* pending timer does run.
C14_DebounceCoalesces ==
    /\ [][/\ Len(uSearches') = Len(uSearches) + 1 =>
               /\ sinceTrigger = QuietTicks
               /\ uSearches'[Len(uSearches')].options = lastOptions
           /\ Len(uSearches') = (IF dArmed' THEN nBursts' - 1 ELSE nBursts')]_vars
    /\ (dArmed ~> ~dArmed)

\* C14 witness: one search ran after two triggers of one run, with the term
\* of the first and the page of the second.
C14_Witness ==
    /\ Len(uSearches) = 1 /\ nBursts = 1 /\ nTriggers = 2
    /\ uSearches[1].options = Options(sA, 2, NoTags)

\* the description of record i as displayed before the merge
SourceDescription(i) ==
    IF provider = "chub" THEN NodeDescription(nodes.list[i])
    ELSE characters[i].description

\* C15: in every returned record a translated flag (name, description, tag)
\* is true only when the map gave that string a value different from the
\* string itself; a map that returns the string (as after a failed batch
\* request) leaves the flag false.
C15_FlagsOnlyWhenTranslated ==
    pc = "done" =>
        \A i \in 1..Len(result) :
            /\ result[i].nameTranslated =>
                  result[i].name # result[i].originalName
            /\ result[i].descriptionTranslated =>
                  result[i].description # SourceDescription(i)
            /\ \A j \in 1..Len(result[i].tags) :
                  result[i].tags[j].translated =>
                      result[i].tags[j].text # result[i].tags[j].original

\* C16: in a primary-catalog search the download request of every node has
\* been issued when the first of them is awaited, and the batch translation
\* request is issued only when every image has resolved and the texts of
\* every record have been collected.
C16_ImagesJoinedBeforeBatch ==
    /\ (provider = "chub" /\ pc \in {"images", "batch"}) =>
          /\ Len(img) = Len(nodes.list)
          /\ nGetCharacter = Len(nodes.list)
          /\ \A i \in 1..Len(nodes.list) :
                Len(imgLog[i]) >= 1 /\ imgLog[i][1] = "POST"
    /\ (provider = "chub" /\ nBatchReq = 1) =>
          /\ \A i \in 1..Len(nodes.list) :
                img[i] = "done" /\ characterBlobs[i] # NoBlob
          /\ Range(textsArray) = PageTranslatable

\* C16 witness: the batch request of a two-node page is in flight, the image
\* of the second node having resolved before that of the first.
C16_Witness ==
    /\ provider = "chub" /\ pc = "batch" /\ nBatchReq = 1
    /\ Len(img) = 2 /\ outOfOrder

\* the request logs getCharacter can leave: the download request alone, or
\* the download request answered non-OK followed by one backup request
ImageLogs ==
    {<<"POST">>, <<"POST", "throw">>, <<"POST", "ok">>,
     <<"POST", "nonok", "GET">>}
    \cup {<<"POST", "nonok", "GET", o>> : o \in FetchOutcomes}

\* C17: getCharacter sends at most two requests for an item, the download
\* POST first and the backup GET once and only after a non-OK download
\* reply, and a search sends the provider request, the term translation and
\* the batch translation at most once each.
C17_AtMostOneRetry ==
    /\ \A i \in 1..Len(imgLog) : imgLog[i] \in ImageLogs
    /\ nGetCharacter = Len(imgLog)
    /\ nProviderReq <= 1
    /\ nTermReq <= 1
    /\ nBatchReq <= 1

\* C17 witness: a search has finished after a backup request for its first
\* item and none for its second.
C17_Witness ==
    /\ pc = "done" /\ Len(imgLog) = 2
    /\ imgLog[1] = <<"POST", "nonok", "GET", "ok">>
    /\ imgLog[2] = <<"POST", "ok">>
    /\ nProviderReq = 1

\* C18: getCharacter resolves only when its download request or its backup
\* request was answered with success; when neither was, it throws.
C18_ThrowsWhenBothFail ==
    \A i \in 1..Len(img) :
        /\ img[i] = "done" => imgLog[i][Len(imgLog[i])] = "ok"
        /\ (imgLog[i][Len(imgLog[i])] \in {"throw", "nonok"}
              /\ img[i] # "fallback") => img[i] = "failed"

\* C19: when getCharacter throws for one item of a page the search is
\* rejected: no list is returned and none is stored, whatever the other
\* items resolved to.
C19_ImageFailureRejects ==
    (\E i \in 1..Len(img) : img[i] = "failed") =>
        /\ pc = "rejected"
        /\ result = <<>>
        /\ chubCharacters = ClearedList

\* C19 witness: the first image of a two-node page resolved and the second
\* one threw.
C19_Witness ==
    /\ pc = "rejected" /\ Len(img) = 2
    /\ img[1] = "done" /\ img[2] = "failed"

\* a search is suspended at one of its network requests
InFlight == pc \in {"term", "search", "images", "batch", "crawl", "jbatch"}

\* C20: for either provider chubCharacters is empty at every suspension
\* point of a search, so no record of an earlier search is in it while a
\* newer search is in flight.
C20_ListResetAtSearchStart ==
    InFlight => chubCharacters = ClearedList

\* C21: when a search of either provider has completed, chubCharacters is
\* the list that search returned.
C21_ListIsLatestResult ==
    pc = "done" => chubCharacters = result

\* the tags of the request that has been built
RequestTags == Range(qTopics.tags) \cup Range(qExcludeTopics.tags)

\* C22: every include and exclude tag of a provider request is trimmed and
\* not empty, and a tag list without a tag adds no tag parameter.
C22_RequestTagsClean ==
    qpc = "built" =>
        /\ \A t \in RequestTags : Trim(t) = t /\ NonEmpty(t)
        /\ qTopics.present => qTopics.tags # <<>>
        /\ qExcludeTopics.present => qExcludeTopics.tags # <<>>
        /\ (\A i \in 1..Len(qInclude) : ~NonEmpty(qInclude[i])) => ~qTopics.present
        /\ (\A i \in 1..Len(qExclude) : ~NonEmpty(qExclude[i]))
              => ~qExcludeTopics.present

\* C23: the page of every call of fetchCharactersBySearch is an integer of
\* at least 1, whatever the user did with the page controls.
C23_PageAtLeastOne ==
    \A k \in 1..Len(uSearches) :
        uSearches[k].options.page \in Nat \ {0}

\* a step that starts a search
SearchStarts == pc \in {"idle"} \cup Terminal /\ pc' \notin {"idle"} \cup Terminal

\* C24: for whichever provider is selected, a search makes one term
\* translation call, before the provider request, when the term contains
\* Chinese and translation is enabled; otherwise it makes none and sends the
\* term unchanged.
C24_TermTranslatedForAnyProvider ==
    [][SearchStarts =>
          IF Truthy(searchTerm') /\ containsChinese(searchTerm') /\ enableTranslation
          THEN nTermReq' = 1 /\ nProviderReq' = nProviderReq
          ELSE nTermReq' = 0 /\ processedSearchTerm' = searchTerm']_vars

\* C25: in every record a search returns, for either provider, no two
\* entries of tags have the same original value.
C25_NoDuplicateTags ==
    pc = "done" =>
        \A i \in 1..Len(result) :
            \A j, k \in 1..Len(result[i].tags) :
                result[i].tags[j].original = result[i].tags[k].original => j = k

\* a secondary-catalog record whose label list and custom-tag list held the
\* same tag has been returned
C25_Witness ==
    /\ pc = "done"
    /\ provider = "janitor"
    /\ \E i \in 1..Len(result) :
           /\ Len(result[i].tags) > 0
           /\ Len(SourceTags(i)) > Len(result[i].tags)

\* no search is scheduled or in flight
Settled ==
    /\ ~dArmed
    /\ \A k \in 1..Len(uSearches) : uSearches[k].st # "flight"

\* the tag elements marked selected are those whose original value is in the
\* include-tag input
HighlightMatches ==
    \A j \in 1..Len(uView.tags) :
        uView.tags[j].selected
            <=> uView.tags[j].original \in Range(SelectedTags(uInclude))

\* a step that changes the include-tag input without a keyup: a tag click
TagClicked == uInclude' # uInclude /\ nTriggers' = nTriggers

\* C26: a listed tag is marked selected iff its original value is in the
\* include-tag list (once no search is scheduled or in flight), and a click
\* on a tag adds or removes exactly its original value in the include-tag
\* input; the display text is never compared or written.
C26_TagsMatchedByOriginal ==
    [][/\ TagClicked =>
            \E j \in 1..Len(uView.tags) :
                LET before == Range(SelectedTags(uInclude))
                    after == Range(SelectedTags(uInclude'))
                    original == uView.tags[j].original
                IN \/ original \notin before /\ after = before \cup {original}
                   \/ original \in before /\ after = before \ {original}
       /\ (PopupOpen /\ Settled)' => HighlightMatches']_vars

\* the tags of the include-tag input as handleSearch would read them
FieldTags == splitAndTrim(uInclude)

\* C27: after a click on a listed tag has changed the include-tag input, a
\* search with the updated include tags is scheduled and executed without
\* further user input.
C27_TagClickSearches ==
    (FieldTags # lastOptions.includeTags)
        ~> (FieldTags = lastOptions.includeTags /\ ~dArmed)

\* some call of searchCharacters is waiting for fetchCharactersBySearch
Searching == \E k \in 1..Len(uSearches) : uSearches[k].st = "flight"

\* C28: while a search is in flight and the list container is attached, the
\* container carries the 'searching' mark; of overlapping searches only the
\* last to complete removes it.
C28_MarkedWhileSearching ==
    (Searching /\ uContainer = "attached") => uSearching

\* C29: every search that starts ends, and then the 'searching' mark is off
\* the list container, also when the search failed.
C29_MarkEventuallyRemoved ==
    Searching ~> (~Searching /\ ~uSearching)

\* C30: executeCharacterSearch never writes to a null container: a search
\* without results that ran with the popup closed completes without error.
C30_NoWriteToNullContainer ==
    ~uError

====
